---- MODULE Spec2Model ----
(***************************************************************************)
(* A model of wacz/waczindexer.py (class WACZIndexer): the per-record      *)
(* callbacks parse_warcinfo and check_pages_and_text, the post-scan step   *)
(* process_all, and the digest signing of generate_datapackage_digest /    *)
(* do_sign.                                                                *)
(*                                                                         *)
(* Python values are modelled as follows: a dict is a function whose       *)
(* DOMAIN is its key set; a dict of fixed shape (a page entry) is a record *)
(* in which a missing key holds None (FALSE for the "seed" key, which the   *)
(* code only tests for truth); strings are strings and are joined with \o  *)
(* as the code joins them with +.                                          *)
(***************************************************************************)
EXTENDS Integers, Sequences, FiniteSets, TLC

VARIABLES
    pages,                 \* self.pages: id -> page entry
    extra_pages,           \* self.extra_pages
    extra_page_lists,      \* self.extra_page_lists: uid -> header of the list
    title,                 \* self.title
    desc,                  \* self.desc
    has_text,              \* self.has_text
    main_url,              \* self.main_url (after the constructor's normalisation)
    main_ts,               \* self.main_ts
    main_page_entry,       \* self.main_page_entry
    main_page_id,          \* self.main_page_id
    main_shared,           \* pages[main_page_id] is the object main_page_entry
    main_flags_set,        \* hasattr(self, "main_url_flag") and hasattr(self, "main_ts_flag")
    main_url_flag,         \* self.main_url_flag
    main_ts_flag,          \* self.main_ts_flag
    passed_pages_dict,     \* self.passed_pages_dict
    table_supplied,        \* the passed_pages_dict the caller supplied (history)
    split_seeds,           \* self.split_seeds
    detect_pages,          \* self.detect_pages
    detect_referrer_check, \* self.detect_referrer_check
    extract_text,          \* self.extract_text
    referrers,             \* self.referrers
    phase,                 \* "scan", "done" (process_all returned), "failed" (it raised),
                           \* "crashed" (a record callback raised)
    nrec,                  \* records delivered so far
    last,                  \* what the last callback did (locals of the handler)
    matched,               \* keys of passed_pages_dict matched so far (history)
    scanned,               \* ids of the content records processed so far (history)
    meta_types,            \* "type" values of the metadata processed so far (history)
    meta_ids,              \* ids of the pages embedded in that metadata (history)
    sign                   \* the digest signer's state, see the signing section

scanVars == <<pages, extra_pages, extra_page_lists, title, desc, has_text, main_url,
              main_ts, main_page_entry, main_page_id, main_shared, main_flags_set,
              main_url_flag,
              main_ts_flag, passed_pages_dict, table_supplied, split_seeds,
              detect_pages, detect_referrer_check, extract_text, referrers, phase,
              nrec, last, matched, scanned, meta_types, meta_ids>>

vars == <<scanVars, sign>>

-----------------------------------------------------------------------------
(* Bounds *)

MaxRecords == 2     \* records delivered in one scan
MaxDates == 2       \* distinct WARC-Date values of the records

-----------------------------------------------------------------------------
(* Python values *)

None == "<None>"    \* Python's None, and the value of a missing dict key

EmptyDict == <<>>   \* {}

Restrict(d, keys) == [k \in (DOMAIN d) \cap keys |-> d[k]]

DictSet(d, k, v) == [x \in (DOMAIN d) \cup {k} |-> IF x = k THEN v ELSE d[x]]

DictDel(d, k) == [x \in (DOMAIN d) \ {k} |-> d[x]]

\* truth value of a string or None
Truthy(v) == v # None /\ v # ""

-----------------------------------------------------------------------------
(* URLs, dates and ids *)

Schemes == {"http", "https"}

Urls == [scheme : Schemes, netloc : {"x"}, path : {"/a"}]

\* urlunsplit of the parts
UrlStr(u) == IF u.scheme = "" THEN u.path ELSE u.scheme \o "://" \o u.netloc \o u.path

UrlStrs == {UrlStr(u) : u \in Urls}

\* WARC-Date n stands for 2020-01-01T00:00:0(n-1)Z
Dates == 1..MaxDates

iso_date_to_timestamp(date) == "2020010100000" \o ToString(date - 1)

Timestamps == {iso_date_to_timestamp(d) : d \in Dates}

MakeId(ts, url) == ts \o "/" \o url

SwapScheme(u) == [u EXCEPT !.scheme = IF u.scheme = "http" THEN "https"
                                      ELSE IF u.scheme = "https" THEN "http"
                                      ELSE u.scheme]

\* wacz.util.check_http_and_https: the exact id, then the id with http and
\* https swapped; "" when neither is a key.
check_http_and_https(url, ts, pages_dict) ==
    IF MakeId(ts, UrlStr(url)) \in DOMAIN pages_dict THEN MakeId(ts, UrlStr(url))
    ELSE IF MakeId(ts, UrlStr(SwapScheme(url))) \in DOMAIN pages_dict
         THEN MakeId(ts, UrlStr(SwapScheme(url)))
    ELSE ""

-----------------------------------------------------------------------------
(* Page entries *)

\* {"timestamp": ts, "url": url, "title": url} (lines 208, 268)
BasicPage(ts, url) ==
    [timestamp |-> ts, url |-> url, title |-> url, text |-> None, seed |-> FALSE]

\* the page built from a matched expected entry (lines 208-215)
NewPage(ts, url, input_page) ==
    [timestamp |-> ts, url |-> url,
     title |-> IF input_page.title # None THEN input_page.title ELSE url,
     text |-> input_page.text,
     seed |-> FALSE]

\* line 217: the matched page goes to extra_pages
RouteToExtra(split, input_page) == split /\ ~input_page.seed

\* line 223 left out: the matched entry stays in the table
DeleteMatched_kept(pages_dict, matched_id) == pages_dict

\* line 223: del self.passed_pages_dict[matched_id]
DeleteMatched(pages_dict, matched_id) == DictDel(pages_dict, matched_id)

\* the synthesized main page entry (lines 237-242, 249-254)
NoEntry == [timestamp |-> None, url |-> None, title |-> None, text |-> None,
            seed |-> FALSE]     \* main_page_entry = None

MainEntry(ts, url) ==
    [timestamp |-> ts, url |-> url, title |-> url, text |-> None, seed |-> TRUE]

-----------------------------------------------------------------------------
(* Records *)

HTML_MIME_TYPES == {"text/html", "application/xhtml", "application/xhtml+xml"}

\* A Content-Type value is the list of its ";"-separated parts; <<>> is a
\* missing (None) or empty header.

\* record.http_headers; NoHttpHeaders is the None of a record without an
\* HTTP envelope (a resource record)
NoHttpHeaders == [statuscode |-> <<>>, content_type |-> <<>>]

\* the HTTP headers and the WARC Content-Type of a record: a record with an
\* HTTP envelope is of WARC Content-Type application/http
RecordHeaders ==
    {<<h, <<"application/http", "msgtype=response">> >> :
        h \in {[statuscode |-> <<2, 0, 0>>, content_type |-> <<"text/html", "charset=utf-8">>],
               [statuscode |-> <<3, 0, 1>>, content_type |-> <<"text/html", "charset=utf-8">>],
               [statuscode |-> <<2, 0, 0>>, content_type |-> <<"image/png">>]}}
    \cup {<<NoHttpHeaders, w>> : w \in {<<>>, <<"application/xhtml+xml">>}}

\* get_record_mime_type
get_record_mime_type(http_headers, warc_content_type) ==
    LET content_type == IF http_headers # NoHttpHeaders THEN http_headers.content_type
                        ELSE warc_content_type
    IN IF content_type = <<>> THEN "" ELSE Head(content_type)

\* line 263
IsRedirect(http_headers) ==
    http_headers # NoHttpHeaders /\ Head(http_headers.statuscode) = 3

\* the record body: empty, not UTF-8, or an HTML text standing for the
\* document the extractor makes of it
EmptyBody == [kind |-> "empty", title |-> "", content |-> ""]
BadBody == [kind |-> "not utf-8", title |-> "", content |-> ""]
Docs == {[kind |-> "html", title |-> "D", content |-> "body"],
         [kind |-> "html", title |-> "", content |-> ""]}
Contents == {EmptyBody, BadBody} \cup Docs

\* lines 289-296 applied to the page entry
ExtractedTitle(entry, doc, url) ==
    IF doc.title # "" /\ (IF entry.title = None THEN url ELSE entry.title) = url
    THEN doc.title ELSE entry.title

ExtractInto(entry, doc, url) ==
    [entry EXCEPT !.text = IF doc.content # "" THEN doc.content ELSE @,
                  !.title = ExtractedTitle(entry, doc, url)]

-----------------------------------------------------------------------------
(* Construction *)

\* kwargs main_url: "" (the default, no main page) or a url
NoUrl == [scheme |-> "", netloc |-> "", path |-> ""]

MainUrlArgs == {NoUrl, [scheme |-> "http", netloc |-> "x", path |-> "/a"]}

\* kwargs main_ts: None (passed explicitly), "" (the default) or a timestamp
MainTsArgs == {None, "", iso_date_to_timestamp(1)}

\* lines 58-62: a url without a path gets the path "/"
NormalizedMainUrl(arg) == UrlStr(IF arg.path = "" THEN [arg EXCEPT !.path = "/"] ELSE arg)

\* kwargs passed_pages_dict: expected pages keyed by id
ExpectedEntries == {[title |-> "T", text |-> "txt", seed |-> FALSE],
                    [title |-> None, text |-> None, seed |-> TRUE]}

TableKeys == {MakeId(iso_date_to_timestamp(1), u) : u \in UrlStrs}

ExpectedTables == UNION {[keys -> ExpectedEntries] : keys \in SUBSET TableKeys}

NoLast == [op |-> "none", id_ |-> "", matched_id |-> "", html |-> FALSE,
           extracted |-> FALSE, doc |-> EmptyBody, embedded |-> {}]

-----------------------------------------------------------------------------
(* The digest record and the signing endpoint *)

Missing == "<missing>"      \* a key the JSON object does not have

\* "signedData" not in digest_dict
Unsigned == [hash |-> Missing, created |-> Missing, extra |-> Missing]

NoDigest == [path |-> "", hash |-> "", signedData |-> Unsigned]

\* the manifest bytes handed to generate_datapackage_digest
Manifests == {"{manifest-1}", "{manifest-2}"}

\* hashlib.sha256(datapackage_bytes).hexdigest()
sha256_hexdigest(bytes) == "hex[" \o bytes \o "]"

\* line 391: the clock at generate_datapackage
CreatedValues == {"2020-01-01T00:00:00Z", "2020-01-01T00:00:01Z"}

\* What requests.post gives: it raises, or returns a response whose body is
\* JSON or not.  A JSON body is an object with or without the keys hash,
\* created and extra (created may be null).
TransportError == [kind |-> "raises", status_code |-> 0, body |-> "", json |-> Unsigned]

Responses ==
    {TransportError}
    \cup [kind : {"response"}, status_code : {500}, body : {"text"}, json : {Unsigned}]
    \cup [kind : {"response"}, status_code : {200}, body : {"text"}, json : {Unsigned}]
    \cup [kind : {"response"}, status_code : {200}, body : {"json"},
          json : [hash : {Missing} \cup {"sha256:" \o sha256_hexdigest(b) : b \in Manifests},
                  created : {Missing, None} \cup CreatedValues,
                  extra : {Missing, "x"}]]

\* the signer before generate_datapackage: self._created is None
SignIdle == [signing_url |-> "", signing_token |-> "", created |-> None,
             step |-> "init", datapackage_bytes |-> "", digest_dict |-> NoDigest, request |-> Unsigned,
             authorization |-> Missing, response |-> TransportError,
             attempts |-> 0, raised |-> FALSE]

\* __init__ (lines 28-73)
InitIndexer ==
    /\ pages = EmptyDict
    /\ extra_pages = EmptyDict
    /\ extra_page_lists = EmptyDict
    /\ title = ""
    /\ desc = ""
    /\ has_text = FALSE
    /\ \E arg \in MainUrlArgs :
          /\ main_url = NormalizedMainUrl(arg)
          /\ main_flags_set = (UrlStr(arg) # "")
          /\ main_ts \in (IF UrlStr(arg) # "" THEN MainTsArgs ELSE {""})
    /\ main_url_flag = FALSE
    /\ main_ts_flag = FALSE
    /\ main_page_entry = NoEntry
    /\ main_page_id = None
    /\ main_shared = FALSE
    /\ passed_pages_dict \in ExpectedTables
    /\ table_supplied = passed_pages_dict
    /\ split_seeds \in BOOLEAN
    /\ detect_pages \in BOOLEAN
    /\ detect_referrer_check = TRUE
    /\ extract_text \in BOOLEAN
    /\ referrers = {}
    /\ phase = "scan"
    /\ nrec = 0
    /\ last = NoLast
    /\ matched = {}
    /\ scanned = {}
    /\ meta_types = {}
    /\ meta_ids = {}

Init == InitIndexer /\ sign = SignIdle

-----------------------------------------------------------------------------
(* check_pages_and_text, followed by the index write of process_index_entry *)

\* detect_page (lines 125-128), reached through _do_write when detect_pages
detect_page(refs, referrer) == IF Truthy(referrer) THEN refs \cup {referrer} ELSE refs

Referrers == {None} \cup UrlStrs

\* the fields of self that check_pages_and_text reads and writes, with its
\* locals id_ and matched_id
Self ==
    [pages |-> pages, extra_pages |-> extra_pages,
     passed_pages_dict |-> passed_pages_dict, main_page_entry |-> main_page_entry,
     main_page_id |-> main_page_id, main_shared |-> main_shared,
     main_url_flag |-> main_url_flag, main_ts_flag |-> main_ts_flag,
     has_text |-> has_text, id_ |-> "", matched_id |-> "", html |-> FALSE,
     extracted |-> FALSE, doc |-> EmptyBody]

\* lines 207-223, for the matched_id of line 205
BuildMatchedPage(s, ts, url, matched_id) ==
    IF matched_id = "" THEN s
    ELSE IF RouteToExtra(split_seeds, s.passed_pages_dict[matched_id])
    THEN [s EXCEPT !.matched_id = matched_id,
                   !.extra_pages = DictSet(@, matched_id,
                                      NewPage(ts, url, s.passed_pages_dict[matched_id])),
                   !.passed_pages_dict = DeleteMatched(@, matched_id)]
    ELSE [s EXCEPT !.matched_id = matched_id,
                   !.pages = DictSet(@, matched_id,
                                NewPage(ts, url, s.passed_pages_dict[matched_id])),
                   !.main_shared = @ /\ matched_id # s.main_page_id,
                   !.passed_pages_dict = DeleteMatched(@, matched_id)]

\* lines 202-203 in place of line 205: only the exact id is looked up
MatchExpectedPage_exact(s, url, ts) ==
    BuildMatchedPage([s EXCEPT !.id_ = MakeId(ts, UrlStr(url))], ts, UrlStr(url),
                     IF MakeId(ts, UrlStr(url)) \in DOMAIN s.passed_pages_dict
                     THEN MakeId(ts, UrlStr(url)) ELSE "")

\* lines 194-223
MatchExpectedPage(s, url, ts) ==
    BuildMatchedPage([s EXCEPT !.id_ = MakeId(ts, UrlStr(url))], ts, UrlStr(url),
                     check_http_and_https(url, ts, s.passed_pages_dict))

\* lines 237-244 and 249-256
SynthesizeMainPage(s, ts, url) ==
    [s EXCEPT !.main_page_entry = MainEntry(ts, url),
              !.main_page_id = s.id_,
              !.pages = DictSet(@, s.id_, MainEntry(ts, url)),
              !.main_shared = TRUE]

\* lines 225-244: the main page given with a timestamp
MainPageWithTs(s, ts, url) ==
    IF Truthy(main_url) /\ main_url = url /\ Truthy(main_ts) /\ main_ts = ts
    THEN IF s.passed_pages_dict = EmptyDict
         THEN SynthesizeMainPage([s EXCEPT !.main_ts_flag = TRUE,
                                           !.main_url_flag = TRUE], ts, url)
         ELSE [s EXCEPT !.main_ts_flag = TRUE, !.main_url_flag = TRUE]
    ELSE s

\* lines 245-256: the main page given with main_ts None
MainPageWithoutTs(s, ts, url) ==
    IF Truthy(main_url) /\ main_url = url /\ main_ts = None
    THEN IF s.id_ \notin DOMAIN s.pages
         THEN SynthesizeMainPage([s EXCEPT !.main_url_flag = TRUE], ts, url)
         ELSE [s EXCEPT !.main_url_flag = TRUE]
    ELSE s

\* lines 258-270; html: the record passed the gate of lines 260-264
DetectPageEntry(s, ts, url, http_headers, warc_content_type) ==
    IF get_record_mime_type(http_headers, warc_content_type) \notin HTML_MIME_TYPES
    THEN s
    ELSE IF IsRedirect(http_headers) THEN s
    ELSE IF s.id_ \notin DOMAIN s.pages /\ detect_pages
    THEN [s EXCEPT !.html = TRUE, !.pages = DictSet(@, s.id_, BasicPage(ts, url))]
    ELSE [s EXCEPT !.html = TRUE]

\* line 291 ahead of the decoding of line 283: a body that was read counts
\* as text even when the try block is left by an exception
ExtractText_flagFirst(s, url, content) ==
    IF ~(s.html /\ s.id_ \in DOMAIN s.pages) THEN s
    ELSE IF ~extract_text THEN s
    ELSE IF content.kind = "empty" THEN s
    ELSE IF content.kind # "html" THEN [s EXCEPT !.has_text = TRUE]
    ELSE [s EXCEPT !.extracted = TRUE,
                   !.doc = content,
                   !.pages = DictSet(@, s.id_, ExtractInto(s.pages[s.id_], content, url)),
                   !.has_text = TRUE,
                   !.main_page_entry =
                        IF s.main_shared /\ s.main_page_id = s.id_
                        THEN ExtractInto(@, content, url) ELSE @]

\* lines 272-301; extracted: the try block ran to its end, on the document doc
ExtractText(s, url, content) ==
    IF ~(s.html /\ s.id_ \in DOMAIN s.pages) THEN s
    ELSE IF ~extract_text THEN s
    ELSE IF content.kind # "html" THEN s
    ELSE [s EXCEPT !.extracted = TRUE,
                   !.doc = content,
                   !.pages = DictSet(@, s.id_, ExtractInto(s.pages[s.id_], content, url)),
                   !.has_text = @ \/ content.content # "",
                   !.main_page_entry =
                        IF s.main_shared /\ s.main_page_id = s.id_
                        THEN ExtractInto(@, content, url) ELSE @]

check_pages_and_text(s, url, ts, http_headers, warc_content_type, content) ==
    ExtractText(
        DetectPageEntry(
            MainPageWithoutTs(
                MainPageWithTs(MatchExpectedPage(s, url, ts), ts, UrlStr(url)),
                ts, UrlStr(url)),
            ts, UrlStr(url), http_headers, warc_content_type),
        UrlStr(url), content)

\* self after the handler returned
Returned(s) ==
    /\ pages' = s.pages
    /\ extra_pages' = s.extra_pages
    /\ passed_pages_dict' = s.passed_pages_dict
    /\ main_page_entry' = s.main_page_entry
    /\ main_page_id' = s.main_page_id
    /\ main_shared' = s.main_shared
    /\ main_url_flag' = s.main_url_flag
    /\ main_ts_flag' = s.main_ts_flag
    /\ has_text' = s.has_text
    /\ matched' = IF s.matched_id # "" THEN matched \cup {s.matched_id} ELSE matched
    /\ scanned' = scanned \cup {s.id_}
    /\ last' = [op |-> "record", id_ |-> s.id_, matched_id |-> s.matched_id,
                html |-> s.html, extracted |-> s.extracted, doc |-> s.doc,
                embedded |-> {}]

CheckPagesAndText(url, date, http_headers, warc_content_type, content, referrer) ==
    /\ Returned(check_pages_and_text(Self, url, iso_date_to_timestamp(date),
                                     http_headers, warc_content_type, content))
    /\ referrers' = IF detect_pages THEN detect_page(referrers, referrer)
                    ELSE referrers

\* The body is read at line 276 only: a record that returns before it stands
\* for the records of every body.
BodiesRead(url, date, headers) ==
    IF extract_text
       /\ get_record_mime_type(headers[1], headers[2]) \in HTML_MIME_TYPES
       /\ ~IsRedirect(headers[1])
    THEN Contents ELSE {EmptyBody}

\* The referrer of the index entry is read by detect_page only, which runs
\* when detect_pages is set (line 120).
ReferrersRead == IF detect_pages THEN Referrers ELSE {None}

\* process_index_entry for a response, resource or revisit record
ContentRecord ==
    /\ phase = "scan"
    /\ nrec < MaxRecords
    /\ \E url \in Urls, date \in Dates, headers \in RecordHeaders :
          \E content \in BodiesRead(url, date, headers), referrer \in ReferrersRead :
             CheckPagesAndText(url, date, headers[1], headers[2], content, referrer)
    /\ nrec' = nrec + 1
    /\ UNCHANGED <<extra_page_lists, title, desc, main_url, main_ts, main_flags_set,
                   table_supplied, split_seeds, detect_pages, detect_referrer_check,
                   extract_text, phase, meta_types, meta_ids, sign>>

-----------------------------------------------------------------------------
(* parse_warcinfo *)

\* a page of a recording's "pages" array: the dict is stored as it is
MetaPage(date, url, page_title) ==
    [timestamp |-> iso_date_to_timestamp(date), url |-> url, title |-> page_title,
     text |-> None, seed |-> FALSE]

MetaPages == {MetaPage(1, "http://x/a", "M"), MetaPage(1, "https://x/a", None)}

MetaPageArrays == {<<>>} \cup {<<p>> : p \in MetaPages}
                  \cup {pq \in MetaPages \X MetaPages : pq[1] # pq[2]}

\* a page list of a collection's "lists"
MetaLists == {<<>>, <<[slug |-> "list1", title |-> "LT", bookmarks |-> <<>>]>>}

\* the value of the json-metadata line: none, not JSON, or a JSON object
\* (type = None: the object has no "type" key)
NoMetadata == [json |-> "absent", type |-> None, title |-> "", desc |-> "",
               lists |-> <<>>, pages |-> <<>>]
BadMetadata == [NoMetadata EXCEPT !.json = "invalid"]

Metadatas ==
    {NoMetadata, BadMetadata}
    \cup [json : {"object"}, type : {None, "other"}, title : {""}, desc : {""},
          lists : {<<>>}, pages : {<<>>}]
    \cup [json : {"object"}, type : {"collection"}, title : {"CT"}, desc : {"CD"},
          lists : MetaLists, pages : {<<>>}]
    \cup [json : {"object"}, type : {"recording"}, title : {""}, desc : {""},
          lists : {<<>>}, pages : MetaPageArrays]

\* lines 168-170: for page in pages: self.pages[id_] = page
RECURSIVE AddMetaPages(_, _)
AddMetaPages(dict, page_array) ==
    IF page_array = <<>> THEN dict
    ELSE LET page == Head(page_array)
             id_ == MakeId(page.timestamp, page.url)
         IN AddMetaPages(DictSet(dict, id_, page), Tail(page_array))

\* the ids line 169 makes of a page array
EmbeddedIds(page_array) ==
    {MakeId(page_array[i].timestamp, page_array[i].url) : i \in DOMAIN page_array}

\* extract_page_lists (lines 174-192): uid -> the header line of the list
RECURSIVE extract_page_lists(_, _)
extract_page_lists(dict, lists) ==
    IF lists = <<>> THEN dict
    ELSE LET pagelist == Head(lists)
             uid == pagelist.slug
         IN extract_page_lists(
                DictSet(dict, uid, [format |-> "json-pages-1.0", id |-> uid,
                                    title |-> pagelist.title]),
                Tail(lists))

\* line 155: if not metadata or "type" not in metadata: return
MetadataIgnored(metadata) == metadata.json # "object" \/ metadata.type = None

\* line 172
ClosesReferrerGate(metadata) == TRUE

\* process_index_entry for a warcinfo record
ParseWarcinfo ==
    /\ phase = "scan"
    /\ nrec < MaxRecords
    /\ nrec' = nrec + 1
    /\ \E metadata \in Metadatas :
          IF metadata.json = "invalid"
          THEN \* json.loads raises (line 151), nothing catches it
               /\ phase' = "crashed"
               /\ last' = [NoLast EXCEPT !.op = "warcinfo"]
               /\ UNCHANGED <<pages, title, desc, extra_page_lists,
                              detect_referrer_check, main_shared, meta_types,
                              meta_ids>>
          ELSE IF MetadataIgnored(metadata)
          THEN /\ last' = [NoLast EXCEPT !.op = "warcinfo"]
               /\ UNCHANGED <<pages, title, desc, extra_page_lists,
                              detect_referrer_check, main_shared, phase, meta_types,
                              meta_ids>>
          ELSE LET collection == metadata.type = "collection"
                   recording == metadata.type = "recording"
                                /\ passed_pages_dict = EmptyDict
                   newPages == IF recording THEN AddMetaPages(pages, metadata.pages)
                               ELSE pages
               IN /\ title' = IF collection THEN metadata.title ELSE title
                  /\ desc' = IF collection THEN metadata.desc ELSE desc
                  /\ extra_page_lists' =
                        IF collection THEN extract_page_lists(extra_page_lists,
                                                              metadata.lists)
                        ELSE extra_page_lists
                  /\ pages' = newPages
                  /\ main_shared' = (main_shared /\ (main_page_id \in DOMAIN pages
                                        => newPages[main_page_id] = pages[main_page_id]))
                  /\ detect_referrer_check' =
                        IF ClosesReferrerGate(metadata) THEN FALSE
                        ELSE detect_referrer_check
                  /\ meta_types' = meta_types \cup {metadata.type}
                  /\ meta_ids' = meta_ids \cup EmbeddedIds(metadata.pages)
                  /\ last' = [NoLast EXCEPT !.op = "metadata",
                                            !.embedded = EmbeddedIds(metadata.pages)]
                  /\ UNCHANGED phase
    /\ UNCHANGED <<extra_pages, has_text, main_url, main_ts, main_page_entry,
                   main_page_id, main_flags_set, main_url_flag, main_ts_flag,
                   passed_pages_dict, table_supplied, split_seeds, detect_pages,
                   extract_text, referrers, matched, scanned, sign>>

-----------------------------------------------------------------------------
(* process_all *)

\* lines 90-97: the pages that survive referrer pruning
PrunedPages ==
    IF detect_referrer_check
    THEN Restrict(pages, {id_ \in DOMAIN pages : pages[id_].url \in referrers})
    ELSE pages

\* lines 99-102: the pages move to extra_pages and the main page stays
SeedsSplit ==
    passed_pages_dict = EmptyDict /\ split_seeds /\ main_page_entry # NoEntry

\* lines 106-117
MainPageNotFound == main_flags_set /\ main_url_flag = FALSE

ProcessAll ==
    /\ phase = "scan"
    /\ LET pages1 == IF detect_pages THEN PrunedPages ELSE pages
           split == detect_pages /\ SeedsSplit
       IN /\ extra_pages' = IF split THEN pages1 ELSE extra_pages
          /\ pages' = IF split THEN DictSet(EmptyDict, main_page_id, main_page_entry)
                      ELSE pages1
          /\ main_shared' = (split \/ (main_shared /\ main_page_id \in DOMAIN pages1))
    /\ phase' = IF MainPageNotFound THEN "failed" ELSE "done"
    /\ last' = [NoLast EXCEPT !.op = "process_all"]
    /\ UNCHANGED <<extra_page_lists, title, desc, has_text, main_url, main_ts,
                   main_page_entry, main_page_id, main_flags_set, main_url_flag,
                   main_ts_flag, passed_pages_dict, table_supplied, split_seeds,
                   detect_pages, detect_referrer_check, extract_text, referrers, nrec,
                   matched, scanned, meta_types, meta_ids, sign>>

Next == ContentRecord \/ ParseWarcinfo \/ ProcessAll

Spec == Init /\ [][Next]_vars

-----------------------------------------------------------------------------
(* generate_datapackage, generate_datapackage_digest and do_sign *)

\* lines 391-394: self._created = package_dict["created"]
GenerateDatapackage ==
    /\ sign.step = "init"
    /\ \E now \in CreatedValues : sign' = [sign EXCEPT !.created = now, !.step = "packaged"]
    /\ UNCHANGED scanVars

\* line 428 without its second comparison: created is not verified
ResponseVerified_hashOnly(res, digest_dict, created) ==
    /\ res.kind = "response"
    /\ res.status_code = 200
    /\ res.body = "json"
    /\ res.json.hash # Missing
    /\ res.json.created # Missing
    /\ res.json.hash = digest_dict.hash

\* lines 423-430: the response is a success that echoes hash and created
ResponseVerified(res, digest_dict, created) ==
    /\ res.kind = "response"
    /\ res.status_code = 200
    /\ res.body = "json"
    /\ res.json.hash # Missing
    /\ res.json.created # Missing
    /\ res.json.hash = digest_dict.hash
    /\ res.json.created = created

\* an exception leaves the try block of do_sign: requests.post raised, the
\* ValueError of line 424, res.json() raised, or a key of line 428 is missing
SigningRaises(res) ==
    \/ res.kind = "raises"
    \/ res.status_code # 200
    \/ res.body # "json"
    \/ res.json.hash = Missing
    \/ res.json.created = Missing

\* line 435: the bare except catches whatever the try block raised
Propagates(res) == FALSE

\* do_sign calling the endpoint again after a failed call
do_sign_retry(g, first, further) ==
    IF ResponseVerified(first, g.digest_dict, g.created)
    THEN [g EXCEPT !.response = first,
                   !.request = [hash |-> g.digest_dict.hash, created |-> g.created,
                                extra |-> Missing],
                   !.attempts = @ + 1,
                   !.digest_dict.signedData = first.json]
    ELSE [g EXCEPT !.response = further,
                   !.request = [hash |-> g.digest_dict.hash, created |-> g.created,
                                extra |-> Missing],
                   !.attempts = @ + 2,
                   !.digest_dict.signedData =
                        IF ResponseVerified(further, g.digest_dict, g.created)
                        THEN further.json ELSE @]

\* do_sign (lines 413-436), given what the endpoint answers to the first and
\* to a further call; the code calls it once
do_sign(g, first, further) ==
    [g EXCEPT !.request = [hash |-> g.digest_dict.hash, created |-> g.created,
                           extra |-> Missing],
              !.authorization = IF g.signing_token # ""
                                THEN "bearer " \o g.signing_token ELSE Missing,
              !.response = first,
              !.attempts = @ + 1,
              !.raised = SigningRaises(first) /\ Propagates(first),
              !.digest_dict.signedData =
                    IF ResponseVerified(first, g.digest_dict, g.created)
                    THEN first.json ELSE @]

\* lines 403-406
NewDigest(datapackage_bytes) ==
    [path |-> "datapackage.json",
     hash |-> "sha256:" \o sha256_hexdigest(datapackage_bytes),
     signedData |-> Unsigned]

\* generate_datapackage_digest (lines 402-411)
generate_datapackage_digest(g, datapackage_bytes, first, further) ==
    IF g.signing_url # ""
    THEN do_sign([g EXCEPT !.digest_dict = NewDigest(datapackage_bytes)], first, further)
    ELSE [g EXCEPT !.digest_dict = NewDigest(datapackage_bytes)]

GenerateDatapackageDigest ==
    /\ sign.step \in {"init", "packaged"}
    /\ \E datapackage_bytes \in Manifests, first \in Responses, further \in Responses :
          sign' = [generate_datapackage_digest(sign, datapackage_bytes, first, further)
                      EXCEPT !.step = "digest", !.datapackage_bytes = datapackage_bytes]
    /\ UNCHANGED scanVars

InitSign ==
    /\ InitIndexer
    /\ main_url = "/" /\ passed_pages_dict = EmptyDict
    /\ ~split_seeds /\ ~detect_pages /\ ~extract_text
    /\ \E u \in {"", "https://signer/sign"}, t \in {"", "token"} :
          sign = [SignIdle EXCEPT !.signing_url = u, !.signing_token = t]

NextSign == GenerateDatapackage \/ GenerateDatapackageDigest

SpecSign == InitSign /\ [][NextSign]_vars

-----------------------------------------------------------------------------
(* Properties of the expected-pages table *)

\* the step is the processing of a content record
RecordStep == nrec' = nrec + 1 /\ last'.op = "record"

\* the step is the processing of a warcinfo record with typed metadata
MetadataStep == nrec' = nrec + 1 /\ last'.op = "metadata"

\* the step is process_all
ProcessAllStep == phase = "scan" /\ last'.op = "process_all"

IdOf(url, date) == MakeId(iso_date_to_timestamp(date), UrlStr(url))

\* C1: every entry of passed_pages_dict is claimed by at most one record: the
\* table never grows and keeps its values, a match deletes the matched entry
\* in the same step, and no key is matched a second time (a record of the
\* same id processed again finds the entry absent).
C1_EntryClaimedAtMostOnce ==
    [][/\ DOMAIN passed_pages_dict' \subseteq DOMAIN passed_pages_dict
       /\ \A k \in DOMAIN passed_pages_dict' : passed_pages_dict'[k] = passed_pages_dict[k]
       /\ (RecordStep /\ last'.matched_id # "")
             => /\ last'.matched_id \in DOMAIN passed_pages_dict
                /\ last'.matched_id \notin DOMAIN passed_pages_dict'
                /\ last'.matched_id \notin matched
                /\ matched' = matched \cup {last'.matched_id}
       /\ (RecordStep /\ last'.matched_id = "")
             => passed_pages_dict' = passed_pages_dict]_vars

\* C1 witness: a record whose id was matched earlier is processed again and
\* matches nothing.
C1_Witness ==
    /\ last.op = "record"
    /\ last.id_ \in matched
    /\ last.matched_id = ""
    /\ last.id_ \notin DOMAIN passed_pages_dict

-----------------------------------------------------------------------------
(* Properties of pages and extra_pages *)

\* C3: with seed-splitting enabled no id is a key of both pages and
\* extra_pages.
C3_PagesDisjoint ==
    split_seeds => (DOMAIN pages) \cap (DOMAIN extra_pages) = {}

\* C4: with seed-splitting enabled, after process_all has returned every id
\* matched against the table is a key of pages or of extra_pages, and every
\* key of the two is the id of a scanned record, a matched key or the id of
\* a page embedded in metadata.
C4_PagesCoverMatched ==
    (split_seeds /\ phase = "done")
       => /\ matched \subseteq (DOMAIN pages) \cup (DOMAIN extra_pages)
          /\ (DOMAIN pages) \cup (DOMAIN extra_pages)
                \subseteq matched \cup scanned \cup meta_ids

\* the collection that holds the pages left by the pruning of process_all
AfterPruning(pages_after, extra_after) == IF detect_pages /\ SeedsSplit THEN extra_after
                                          ELSE pages_after

\* C5: in process_all, page detection being enabled, a page whose url is not
\* in referrers is removed if and only if no collection or recording metadata
\* was processed during the scan.
C5_PrunedIffNoMetadata ==
    [][(ProcessAllStep /\ detect_pages)
          => \A id_ \in DOMAIN pages :
                pages[id_].url \notin referrers
                   => (id_ \notin DOMAIN AfterPruning(pages', extra_pages')
                         <=> meta_types \cap {"collection", "recording"} = {})]_vars

\* C6: a record whose text extraction succeeds (the extractor made a document
\* with text of its body) leaves the title of its page as it was when that
\* title differed from the page's url.
C6_TitlePreserved ==
    [][(RecordStep /\ last'.extracted /\ last'.doc.content # ""
          /\ last'.id_ \in DOMAIN pages)
          => (pages[last'.id_].title \notin {None, pages[last'.id_].url}
                => pages'[last'.id_].title = pages[last'.id_].title)]_vars

\* C7: after a recording's metadata is processed on an empty pages, no table
\* having been supplied, pages holds exactly the embedded pages, each under
\* timestamp + "/" + url, and a page without a title has its url as title.
C7_RecordingPagesTitled ==
    [][(MetadataStep /\ "recording" \in meta_types' \ meta_types
          /\ table_supplied = EmptyDict /\ pages = EmptyDict)
          => /\ DOMAIN pages' = last'.embedded
             /\ \A id_ \in DOMAIN pages' :
                   /\ id_ = MakeId(pages'[id_].timestamp, pages'[id_].url)
                   /\ pages'[id_].title # None]_vars

\* the scan held a record of the main url and, when main_ts names a
\* timestamp, of that timestamp
MainPageScanned ==
    \E ts \in (IF Truthy(main_ts) THEN {main_ts} ELSE Timestamps) :
        MakeId(ts, main_url) \in scanned

\* C8: with a main page configured process_all fails exactly when the scan
\* held no record of the main url (and of the main timestamp, if one was
\* given; an omitted or None timestamp asks for the url alone).
C8_FailsIffMainPageMissing ==
    (main_flags_set /\ phase \in {"done", "failed"})
       => (phase = "failed" <=> ~MainPageScanned)

-----------------------------------------------------------------------------
(* Properties of the digest *)

\* the response is a success echoing the hash and the created that were sent
Echoed ==
    /\ sign.response.kind = "response"
    /\ sign.response.status_code = 200
    /\ sign.response.body = "json"
    /\ sign.response.json.hash = sign.request.hash
    /\ sign.response.json.created = sign.request.created

\* C9: with a signing url the digest carries signedData if and only if the
\* call succeeded and echoed the hash and created of the request, which are
\* the digest's hash and self._created; signedData is then the whole response.
C9_SignedIffEchoed ==
    (sign.step = "digest" /\ sign.signing_url # "")
       => /\ sign.request.hash = sign.digest_dict.hash
          /\ sign.request.created = sign.created
          /\ sign.digest_dict.signedData # Unsigned <=> Echoed
          /\ Echoed => sign.digest_dict.signedData = sign.response.json

\* C9 witness: a signed digest whose signedData carries the extra field.
C9_Witness ==
    /\ sign.step = "digest"
    /\ sign.digest_dict.signedData # Unsigned
    /\ sign.digest_dict.signedData.extra = "x"
    /\ sign.created \in CreatedValues

\* the signing call failed: it raised, answered a non-success status or a
\* body that is not the expected JSON, or echoed another hash or created
SigningFailed ==
    \/ sign.response.kind = "raises"
    \/ sign.response.status_code # 200
    \/ sign.response.body # "json"
    \/ sign.response.json.hash # sign.digest_dict.hash
    \/ sign.response.json.created # sign.created

\* C10: whatever the signing call does, generate_datapackage_digest returns
\* the digest of the manifest bytes; after a failed call the digest is
\* unsigned, and exactly one call was made.
C10_DigestAlwaysEmitted ==
    sign.step = "digest"
       => /\ ~sign.raised
          /\ sign.digest_dict.path = "datapackage.json"
          /\ sign.digest_dict.hash = "sha256:" \o sha256_hexdigest(sign.datapackage_bytes)
          /\ sign.signing_url # "" => sign.attempts = 1
          /\ (sign.signing_url # "" /\ SigningFailed)
                => sign.digest_dict.signedData = Unsigned

\* C10 witness: the endpoint answered a non-success status and the unsigned
\* digest was returned.
C10_Witness ==
    /\ sign.step = "digest"
    /\ sign.signing_url # ""
    /\ sign.response.kind = "response"
    /\ sign.response.status_code = 500
    /\ sign.digest_dict.signedData = Unsigned
    /\ sign.digest_dict.path = "datapackage.json"

-----------------------------------------------------------------------------
(* Properties of the collection-info record *)

\* the step is the processing of a warcinfo record whose json-metadata is
\* missing, not JSON, or without a "type"
MalformedStep == nrec' = nrec + 1 /\ last'.op = "warcinfo"

\* C12: a warcinfo record whose json-metadata is missing, not valid JSON or
\* without a "type" raises nothing and leaves pages, title, desc and the page
\* lists as they were; the scan goes on.
C12_MalformedMetadataIgnored ==
    [][MalformedStep
          => /\ phase' = "scan"
             /\ UNCHANGED <<pages, title, desc, extra_page_lists>>]_vars

\* C13: when the caller supplied a non-empty table, no recording metadata,
\* wherever it comes in the scan (also after every entry of the table was
\* matched and removed), adds a page of its page array to pages.
C13_TableBeforeMetadata ==
    [][(MetadataStep /\ table_supplied # EmptyDict) => pages' = pages]_vars

-----------------------------------------------------------------------------
(* Properties of the main page *)

\* C14: when the caller supplied a table, no seed main-page entry is
\* synthesized: a record matching main_url and main_ts only sets the flags, so
\* main_page_entry stays None and no entry of pages is a seed entry put in
\* place of the page built from the matched entry.
C14_NoSynthesisWithTable ==
    [][(RecordStep /\ table_supplied # EmptyDict)
          => /\ main_page_entry' = NoEntry
             /\ main_page_id' = None
             /\ \A id_ \in DOMAIN pages' : ~pages'[id_].seed]_vars

\* C15: with main_ts None the first record of the main url wins: once the
\* main page entry is set, a later record of that url leaves main_page_id and
\* the timestamp and url of main_page_entry as they are.
C15_FirstMainPageWins ==
    [][(RecordStep /\ main_ts = None /\ main_page_entry # NoEntry)
          => /\ main_page_id' = main_page_id
             /\ main_page_entry'.timestamp = main_page_entry.timestamp
             /\ main_page_entry'.url = main_page_entry.url]_vars

-----------------------------------------------------------------------------
(* Properties of the referrer gate and of page registration *)

\* C16: detect_referrer_check is off exactly when collection or recording
\* metadata was processed: metadata of another type, or none, leaves it on,
\* and once off it stays off.
C16_GateClosedByCollectionOrRecording ==
    ~detect_referrer_check <=> meta_types \cap {"collection", "recording"} # {}

\* every key of the dict is the timestamp + "/" + url of its entry
KeyedById(dict) ==
    \A id_ \in DOMAIN dict : id_ = MakeId(dict[id_].timestamp, dict[id_].url)

\* C17: every key of pages and of extra_pages is the timestamp + "/" + url of
\* its entry, and one record adds at most one key to the two.
C17_KeyedByOwnId ==
    [][/\ KeyedById(pages') /\ KeyedById(extra_pages')
       /\ RecordStep
             => Cardinality((DOMAIN pages' \cup DOMAIN extra_pages')
                              \ (DOMAIN pages \cup DOMAIN extra_pages)) <= 1]_vars

\* C18: a record that is not HTML, or whose status is 3xx, changes neither
\* pages nor extra_pages and has no text extracted.
C18_NonHtmlIsNoPage ==
    [][(RecordStep /\ ~last'.html)
          => /\ pages' = pages
             /\ extra_pages' = extra_pages
             /\ has_text' = has_text
             /\ ~last'.extracted]_vars

-----------------------------------------------------------------------------
(* Properties of text extraction *)

\* the step is the processing of a record that reached the body read of line
\* 276 and came back without a document: the body is empty, or the decoding
\* or the extractor raised
FailedExtractionStep ==
    /\ RecordStep
    /\ extract_text
    /\ last'.html
    /\ last'.id_ \in DOMAIN pages'
    /\ ~last'.extracted

\* the entries lines 194-270 can leave under the id of the record
Registered(ts, url, id_, matched_id) ==
    {BasicPage(ts, url), MainEntry(ts, url)}
    \cup (IF id_ \in DOMAIN pages THEN {pages[id_]} ELSE {})
    \cup (IF matched_id = id_ THEN {NewPage(ts, url, passed_pages_dict[id_])} ELSE {})

\* C19: a record whose text extraction fails (empty body, decoding or
\* extractor raising) returns normally: the scan goes on, the entry registered
\* under its id is in pages as it was registered, with no text or title from
\* the body, has_text is unchanged, and so is every other entry of pages and
\* extra_pages.
C19_ExtractionFailureIsolated ==
    [][FailedExtractionStep
          => /\ phase' = "scan"
             /\ has_text' = has_text
             /\ \A u \in Urls, d \in Dates :
                   last'.id_ = IdOf(u, d)
                      => pages'[last'.id_]
                            \in Registered(iso_date_to_timestamp(d), UrlStr(u),
                                           last'.id_, last'.matched_id)
             /\ \A k \in (DOMAIN pages \cup DOMAIN pages')
                            \ {last'.id_, last'.matched_id} :
                   k \in DOMAIN pages /\ k \in DOMAIN pages' /\ pages'[k] = pages[k]
             /\ \A k \in (DOMAIN extra_pages \cup DOMAIN extra_pages')
                            \ {last'.matched_id} :
                   /\ k \in DOMAIN extra_pages /\ k \in DOMAIN extra_pages'
                   /\ extra_pages'[k] = extra_pages[k]]_vars

\* C19 witness: extraction failed for a record after an earlier record had
\* its text extracted; the failing record's page is registered without text
\* and the scan goes on.
C19_Witness ==
    /\ phase = "scan"
    /\ extract_text
    /\ last.op = "record"
    /\ last.html
    /\ ~last.extracted
    /\ last.id_ \in DOMAIN pages
    /\ pages[last.id_].text = None
    /\ pages[last.id_].title = pages[last.id_].url
    /\ has_text
    /\ Cardinality(DOMAIN pages) = 2

-----------------------------------------------------------------------------
(* Properties of process_all *)

\* C20: no table having been supplied and a record matching the main page
\* having been processed, after process_all returned without error pages
\* holds the synthesized seed entry of the main url.
C20_MainPageSurvives ==
    (table_supplied = EmptyDict /\ phase = "done" /\ main_url_flag)
       => \E id_ \in DOMAIN pages : pages[id_].seed /\ pages[id_].url = main_url

====
